---- MODULE Spec2Model ----
(***************************************************************************)
(* Model of scripts/t2t-test-scritps/oc-manage.py: the OpenShift namespace *)
(* report.  The script lists the namespaces of a cluster through the `oc`  *)
(* client, fetches the deployment configs and the pods of each namespace,  *)
(* renders one HTML document and prints it or writes it to a file.  It has *)
(* two entry points, main_cli and main_ansible.                            *)
(*                                                                         *)
(* Strings the script only compares are TLA+ strings.  The HTML document   *)
(* is the sequence of the fragments the script concatenates, each fragment *)
(* a tuple of strings (its tag and the values interpolated into it).  A    *)
(* JSON object is a function whose DOMAIN is the set of keys present.      *)
(***************************************************************************)
EXTENDS Integers, Sequences, FiniteSets, TLC

VARIABLES
    mode,          \* which entry point runs: "cli", "ansible", or "unit"
    pc,            \* position of the running function
    argv,          \* the raw arguments: [namespaces, output]
    namespaces,    \* the namespace filter handed to get_namespaces
    oc,            \* what the oc client answered, per query
    ns_list,       \* main_*: ns_list
    idx,           \* main_*: position of the for loop in ns_list
    report_data,   \* main_*: report_data, a dict with insertion order
    html,          \* main_*: html
    files,         \* the file system, per output path
    stdout,        \* what the process printed, in order
    now,           \* the wall clock, in seconds
    creation_ts,   \* get_age: its argument
    age,           \* get_age: its result
    fetched        \* get_deploymentconfigs / get_pods: the result

vars == <<mode, pc, argv, namespaces, oc, ns_list, idx, report_data, html,
          files, stdout, now, creation_ts, age, fetched>>

----------------------------------------------------------------------------
(* Bounds of the model *)

MaxNs == 2          \* namespaces in one cluster listing
MaxItems == 2       \* items in one resource listing of the fetcher runs

(* Units of timedelta and of the arithmetic of get_age *)
SecondsPerDay == 86400
SecondsPerHour == 3600
SecondsPerMinute == 60

----------------------------------------------------------------------------
(* Values *)

Range(s) == {s[i] : i \in 1..Len(s)}

\* An optional list and an optional string: None, or a value
NoList == [given |-> FALSE, value |-> << >>]
NoStr == [given |-> FALSE, value |-> ""]
Some(v) == [given |-> TRUE, value |-> v]

\* `if x:` for an optional list and for an optional string
TruthyList(opt) == opt.given /\ opt.value # << >>
TruthyStr(opt) == opt.given /\ opt.value # ""

\* key in obj, for a JSON object
HasKey(obj, k) == k \in DOMAIN obj

\* A creationTimestamp as the text "2024-01-<day>T<hh>:<mm>:<ss><zone>"
Timestamp(day, hh, mm, ss, zone) ==
    [day |-> day, hh |-> hh, mm |-> mm, ss |-> ss, zone |-> zone]

\* The timestamp text of an instant (seconds since 2024-01-01T00:00:00Z)
TsOf(t) ==
    Timestamp(1 + (t \div SecondsPerDay),
              (t % SecondsPerDay) \div SecondsPerHour,
              (t % SecondsPerHour) \div SecondsPerMinute,
              t % SecondsPerMinute,
              "Z")

----------------------------------------------------------------------------
(* get_age *)

\* datetime.strptime(creation_ts, "%Y-%m-%dT%H:%M:%SZ") raises ValueError
strptime_raises(ts) ==
    \/ ts.zone # "Z"
    \/ ts.day \notin 1..31
    \/ ts.hh \notin 0..23
    \/ ts.mm \notin 0..59
    \/ ts.ss \notin 0..59

\* ... and otherwise the instant it names
strptime(ts) ==
    (ts.day - 1) * SecondsPerDay + ts.hh * SecondsPerHour
        + ts.mm * SecondsPerMinute + ts.ss

\* timedelta normalisation: days may be negative, 0 <= seconds < 86400
timedelta(d) == [days |-> d \div SecondsPerDay, seconds |-> d % SecondsPerDay]

\* A variant that rounds the elapsed seconds up to the next minute
get_age_roundup(ts, clock) ==
    LET delta == timedelta(clock - strptime(ts) + (SecondsPerMinute - 1))
        days == delta.days
        hours == delta.seconds \div SecondsPerHour
        minutes == (delta.seconds % SecondsPerHour) \div SecondsPerMinute
    IN  IF days > 0 THEN ToString(days) \o "d " \o ToString(hours) \o "h"
        ELSE IF hours > 0 THEN ToString(hours) \o "h " \o ToString(minutes) \o "m"
        ELSE ToString(minutes) \o "m"

get_age(ts, clock) ==
    LET delta == timedelta(clock - strptime(ts))
        days == delta.days
        hours == delta.seconds \div SecondsPerHour
        minutes == (delta.seconds % SecondsPerHour) \div SecondsPerMinute
    IN  IF days > 0 THEN ToString(days) \o "d " \o ToString(hours) \o "h"
        ELSE IF hours > 0 THEN ToString(hours) \o "h " \o ToString(minutes) \o "m"
        ELSE ToString(minutes) \o "m"

----------------------------------------------------------------------------
(* The oc client *)

\* One answer of the client: its exit status and what json.loads makes of
\* its standard output.  kind is "garbage" (not JSON), "array" (JSON, but
\* no object) or "object"; obj is the object, with or without "items".
Answer(rc, kind, obj) == [rc |-> rc, kind |-> kind, obj |-> obj]
NoObj == [error |-> "not an object"]
Listing(items) == Answer(0, "object", [items |-> items])

\* subprocess.run(..., check=True) raises CalledProcessError
run_oc_raises(ans) == ans.rc # 0

\* json.loads raises JSONDecodeError on the output
json_raises(ans) == ans.kind = "garbage"

----------------------------------------------------------------------------
(* get_deploymentconfigs, get_pods *)

\* What a call comes to: a returned value, or the exception it lets escape
Return(v) == [exc |-> "", value |-> v]
Raise(e) == [exc |-> e, value |-> << >>]

\* The exception, if any, that building the dict of one item raises
dc_item_exc(item) ==
    IF ~HasKey(item, "metadata") THEN "KeyError"
    ELSE IF ~HasKey(item.metadata, "name") THEN "KeyError"
    ELSE IF ~HasKey(item.metadata, "creationTimestamp") THEN "KeyError"
    ELSE IF strptime_raises(item.metadata.creationTimestamp) THEN "ValueError"
    ELSE ""

\* item.get("status", {}).get("replicas", 0)
dc_replicas(item) ==
    IF HasKey(item, "status") /\ HasKey(item.status, "replicas")
    THEN item.status.replicas ELSE 0

dc_summary(item, clock) ==
    [name |-> item.metadata.name,
     replicas |-> dc_replicas(item),
     age |-> get_age(item.metadata.creationTimestamp, clock)]

pod_item_exc(item) ==
    IF ~HasKey(item, "metadata") THEN "KeyError"
    ELSE IF ~HasKey(item.metadata, "name") THEN "KeyError"
    ELSE IF ~HasKey(item, "status") THEN "KeyError"
    ELSE IF ~HasKey(item.status, "phase") THEN "KeyError"
    ELSE IF ~HasKey(item.metadata, "creationTimestamp") THEN "KeyError"
    ELSE IF strptime_raises(item.metadata.creationTimestamp) THEN "ValueError"
    ELSE ""

pod_summary(item, clock) ==
    [name |-> item.metadata.name,
     status |-> item.status.phase,
     age |-> get_age(item.metadata.creationTimestamp, clock)]

\* data.get("items", [])
items_or_empty(ans) == IF HasKey(ans.obj, "items") THEN ans.obj.items ELSE << >>

\* The body of the try statement of get_deploymentconfigs: the list it
\* builds, or the first exception raised on the way
dc_try(ans, clock) ==
    IF run_oc_raises(ans) THEN Raise("CalledProcessError")
    ELSE IF json_raises(ans) THEN Raise("JSONDecodeError")
    ELSE IF ans.kind # "object" THEN Raise("AttributeError")
    ELSE LET items == items_or_empty(ans)
             bad == {i \in 1..Len(items) : dc_item_exc(items[i]) # ""}
         IN  IF bad # {}
             THEN Raise(dc_item_exc(items[CHOOSE i \in bad : \A j \in bad : i <= j]))
             ELSE Return([i \in 1..Len(items) |-> dc_summary(items[i], clock)])

pod_try(ans, clock) ==
    IF run_oc_raises(ans) THEN Raise("CalledProcessError")
    ELSE IF json_raises(ans) THEN Raise("JSONDecodeError")
    ELSE IF ans.kind # "object" THEN Raise("AttributeError")
    ELSE LET items == items_or_empty(ans)
             bad == {i \in 1..Len(items) : pod_item_exc(items[i]) # ""}
         IN  IF bad # {}
             THEN Raise(pod_item_exc(items[CHOOSE i \in bad : \A j \in bad : i <= j]))
             ELSE Return([i \in 1..Len(items) |-> pod_summary(items[i], clock)])

\* `except Exception: return []`: every exception of the body is one
IsException(e) == e # ""

\* A variant whose handler is `except KeyError`
get_deploymentconfigs_keyerror(ans, clock) ==
    LET r == dc_try(ans, clock)
    IN  IF r.exc = "KeyError" THEN Return(<< >>) ELSE r

\* A variant that summarises the items before the first one that raises
get_deploymentconfigs_prefix(ans, clock) ==
    LET r == dc_try(ans, clock)
    IN  IF r.exc \in {"KeyError", "ValueError"}
        THEN LET items == items_or_empty(ans)
                 good == {i \in 1..Len(items) :
                            \A j \in 1..i : dc_item_exc(items[j]) = ""}
             IN  Return([i \in 1..Cardinality(good) |-> dc_summary(items[i], clock)])
        ELSE IF IsException(r.exc) THEN Return(<< >>) ELSE r

\* A variant without the try statement
get_deploymentconfigs_notry(ans, clock) == dc_try(ans, clock)

get_deploymentconfigs(ans, clock) ==
    LET r == dc_try(ans, clock)
    IN  IF IsException(r.exc) THEN Return(<< >>) ELSE r

get_pods(ans, clock) ==
    LET r == pod_try(ans, clock)
    IN  IF IsException(r.exc) THEN Return(<< >>) ELSE r

----------------------------------------------------------------------------
(* get_namespaces *)

\* [ns for ns in all_ns if ns in target]
RECURSIVE keep_members(_, _)
keep_members(all_ns, target) ==
    IF all_ns = << >> THEN << >>
    ELSE IF Head(all_ns) \in Range(target)
         THEN <<Head(all_ns)>> \o keep_members(Tail(all_ns), target)
         ELSE keep_members(Tail(all_ns), target)

\* A variant that walks the filter and keeps the names the cluster has
RECURSIVE keep_listed(_, _)
keep_listed(target, all_ns) ==
    IF target = << >> THEN << >>
    ELSE IF Head(target) \in Range(all_ns)
         THEN <<Head(target)>> \o keep_listed(Tail(target), all_ns)
         ELSE keep_listed(Tail(target), all_ns)

get_namespaces_filter_order(target_namespaces, ans) ==
    IF run_oc_raises(ans) THEN Raise("CalledProcessError")
    ELSE IF json_raises(ans) THEN Raise("JSONDecodeError")
    ELSE IF ans.kind # "object" THEN Raise("TypeError")
    ELSE IF ~HasKey(ans.obj, "items") THEN Raise("KeyError")
    ELSE LET items == ans.obj.items
         IN  IF \E i \in 1..Len(items) :
                    ~HasKey(items[i], "metadata") \/ ~HasKey(items[i].metadata, "name")
             THEN Raise("KeyError")
             ELSE LET all_ns == [i \in 1..Len(items) |-> items[i].metadata.name]
                  IN  IF TruthyList(target_namespaces)
                      THEN Return(keep_listed(target_namespaces.value, all_ns))
                      ELSE Return(all_ns)

\* A variant that answers a failed listing with no namespaces
get_namespaces_tolerant(target_namespaces, ans) ==
    IF run_oc_raises(ans) \/ json_raises(ans) \/ ans.kind # "object"
       \/ ~HasKey(ans.obj, "items")
    THEN Return(<< >>)
    ELSE LET items == ans.obj.items
         IN  IF \E i \in 1..Len(items) :
                    ~HasKey(items[i], "metadata") \/ ~HasKey(items[i].metadata, "name")
             THEN Return(<< >>)
             ELSE LET all_ns == [i \in 1..Len(items) |-> items[i].metadata.name]
                  IN  IF TruthyList(target_namespaces)
                      THEN Return(keep_members(all_ns, target_namespaces.value))
                      ELSE Return(all_ns)

get_namespaces(target_namespaces, ans) ==
    IF run_oc_raises(ans) THEN Raise("CalledProcessError")
    ELSE IF json_raises(ans) THEN Raise("JSONDecodeError")
    ELSE IF ans.kind # "object" THEN Raise("TypeError")
    ELSE IF ~HasKey(ans.obj, "items") THEN Raise("KeyError")
    ELSE LET items == ans.obj.items
         IN  IF \E i \in 1..Len(items) :
                    ~HasKey(items[i], "metadata") \/ ~HasKey(items[i].metadata, "name")
             THEN Raise("KeyError")
             ELSE LET all_ns == [i \in 1..Len(items) |-> items[i].metadata.name]
                  IN  IF TruthyList(target_namespaces)
                      THEN Return(keep_members(all_ns, target_namespaces.value))
                      ELSE Return(all_ns)

----------------------------------------------------------------------------
(* build_report *)

BOOTSTRAP_CDN == "https://cdn.jsdelivr.net/npm/bootstrap@5.3.0/dist/css/bootstrap.min.css"

\* strftime('%Y-%m-%d %H:%M:%S') of a clock reading
TwoDigits(n) == IF n < 10 THEN "0" \o ToString(n) ELSE ToString(n)

strftime(t) ==
    LET ts == TsOf(t)
    IN  "2024-01-" \o TwoDigits(ts.day) \o " " \o TwoDigits(ts.hh) \o ":"
            \o TwoDigits(ts.mm) \o ":" \o TwoDigits(ts.ss)

\* The fragments of the f-string that opens the document
html_head(t) ==
    << <<"<!DOCTYPE html>">>,
       <<"<html lang=\"en\">">>,
       <<"<head>", "OpenShift Namespace Report", BOOTSTRAP_CDN>>,
       <<"<body>">>,
       <<"<h1>", "OpenShift Namespace Report">>,
       <<"<p>", "Generated: ", strftime(t)>> >>

\* A variant that puts each new row before the rows already written
dc_rows_prepend(dcs) ==
    [i \in 1..Len(dcs) |->
        <<"<tr>", dcs[Len(dcs) + 1 - i].name,
          ToString(dcs[Len(dcs) + 1 - i].replicas), dcs[Len(dcs) + 1 - i].age>>]

dc_rows(dcs) ==
    [i \in 1..Len(dcs) |->
        <<"<tr>", dcs[i].name, ToString(dcs[i].replicas), dcs[i].age>>]

pod_rows(pods) ==
    [i \in 1..Len(pods) |-> <<"<tr>", pods[i].name, pods[i].status, pods[i].age>>]

\* The fragments the loop body appends for one namespace
html_section(ns, nsdata) ==
    << <<"<h2>", ns>>,
       <<"<h4>", "DeploymentConfigs">>,
       <<"<thead>", "Name", "Replicas", "Age">> >>
    \o dc_rows(nsdata["deploymentconfigs"])
    \o << <<"</tbody></table>">>,
          <<"<h4>", "Pods">>,
          <<"<thead>", "Name", "Status", "Age">> >>
    \o pod_rows(nsdata["pods"])
    \o << <<"</tbody></table>">> >>

\* for ns, nsdata in data.items()
RECURSIVE html_sections(_, _)
html_sections(order, map) ==
    IF order = << >> THEN << >>
    ELSE html_section(Head(order), map[Head(order)])
            \o html_sections(Tail(order), map)

html_tail == << <<"</div>">>, <<"</body>">>, <<"</html>">> >>

\* nsdata["deploymentconfigs"] or nsdata["pods"] raises KeyError
build_report_raises(data) ==
    \E i \in 1..Len(data.order) :
        \/ ~HasKey(data.map[data.order[i]], "deploymentconfigs")
        \/ ~HasKey(data.map[data.order[i]], "pods")

build_report(data, t) ==
    html_head(t) \o html_sections(data.order, data.map) \o html_tail

----------------------------------------------------------------------------
(* main_cli, main_ansible *)

\* str.split(",") on a string given as its characters
RECURSIVE split_from(_, _)
split_from(chars, word) ==
    IF chars = << >> THEN <<word>>
    ELSE IF Head(chars) = "," THEN <<word>> \o split_from(Tail(chars), "")
    ELSE split_from(Tail(chars), word \o Head(chars))

split(chars) == split_from(chars, "")

\* report_data[ns][key] = value, on a defaultdict(dict)
\* A variant that assigns a fresh dict: report_data[ns] = {key: value}
SetItem_replace(data, ns, key, value) ==
    IF ns \in Range(data.order)
    THEN [order |-> data.order,
          map |-> [data.map EXCEPT ![ns] = (key :> value)]]
    ELSE [order |-> Append(data.order, ns),
          map |-> data.map @@ (ns :> (key :> value))]

SetItem(data, ns, key, value) ==
    IF ns \in Range(data.order)
    THEN [order |-> data.order,
          map |-> [data.map EXCEPT ![ns] = (key :> value) @@ @]]
    ELSE [order |-> Append(data.order, ns),
          map |-> data.map @@ (ns :> (key :> value))]

\* open(path, "w") raises
open_raises(fs, path) == ~HasKey(fs, path) \/ ~fs[path].writable

\* A variant that opens the file with mode "a"
write_file_append(fs, path, text) ==
    [fs EXCEPT ![path] = [writable |-> TRUE, exists |-> TRUE,
                          content |-> fs[path].content \o text]]

\* f.write(html) on the freshly truncated file
write_file(fs, path, text) ==
    [fs EXCEPT ![path] = [writable |-> TRUE, exists |-> TRUE, content |-> text]]

Confirmation(path) == << <<"Report written to ", path>> >>

----------------------------------------------------------------------------
(* Inputs of the runs *)

\* The clock reading of the runs: 2024-01-11T00:00:00Z
BaseNow == 864000

\* The state of the variables a run does not use
Unused ==
    /\ argv = [namespaces |-> NoList, output |-> NoStr]
    /\ namespaces = NoList
    /\ ns_list = << >>
    /\ idx = 0
    /\ report_data = [order |-> << >>, map |-> << >>]
    /\ html = << >>
    /\ files = << >>
    /\ stdout = << >>

\* Elapsed times around every boundary of get_age, both sides of zero
AgeOffsets ==
    UNION {{b - 2, b - 1, b, b + 1, b + 2} :
             b \in {0, 60, 3600, 7200, 86400, 90000, 172800}}
      \cup {59, 3599, 86399, 43200, 500000}
      \cup {0 - 60, 0 - 61, 0 - 3599, 0 - 3600, 0 - 3601, 0 - 86399, 0 - 86400,
            0 - 86401, 0 - 90000, 0 - 172800}

\* Seqs of length at most n over the set S
SeqsUpTo(S, n) == UNION {[1..k -> S] : k \in 0..n}

Meta(name, ts) == [name |-> name, creationTimestamp |-> ts]
OldTs == TsOf(BaseNow - 90000)
NewTs == TsOf(BaseNow - 61)

DcItems ==
    { [metadata |-> Meta("web", OldTs), status |-> [replicas |-> 2]],
      [metadata |-> Meta("db", NewTs)],
      [metadata |-> Meta("api", NewTs), status |-> [availableReplicas |-> 1]],
      [metadata |-> [creationTimestamp |-> OldTs], status |-> [replicas |-> 1]],
      [metadata |-> [name |-> "nots"], status |-> [replicas |-> 1]],
      [metadata |-> Meta("zone", Timestamp(10, 0, 0, 0, "+01:00")),
       status |-> [replicas |-> 1]],
      [status |-> [replicas |-> 1]] }

PodItems ==
    { [metadata |-> Meta("web-1", OldTs), status |-> [phase |-> "Running"]],
      [metadata |-> Meta("db-1", NewTs), status |-> [phase |-> "Pending"]],
      [metadata |-> Meta("nostatus", NewTs)],
      [metadata |-> Meta("nophase", NewTs), status |-> [reason |-> "Evicted"]],
      [metadata |-> [creationTimestamp |-> OldTs], status |-> [phase |-> "Running"]],
      [metadata |-> [name |-> "nots"], status |-> [phase |-> "Running"]],
      [metadata |-> Meta("hour", Timestamp(10, 24, 0, 0, "Z")),
       status |-> [phase |-> "Failed"]],
      [status |-> [phase |-> "Running"]] }

\* The answers that are no listing: the client fails, prints no JSON,
\* prints a JSON array, prints an object without "items"
BadAnswers ==
    { Answer(1, "garbage", NoObj), Answer(0, "garbage", NoObj),
      Answer(0, "array", NoObj) }
NoItemsAnswer == Answer(0, "object", [kind |-> "Status"])

DcAnswers ==
    BadAnswers \cup {NoItemsAnswer}
        \cup {Listing(s) : s \in SeqsUpTo(DcItems, MaxItems)}
PodAnswers ==
    BadAnswers \cup {NoItemsAnswer}
        \cup {Listing(s) : s \in SeqsUpTo(PodItems, MaxItems)}

\* The namespaces of the cluster, and a name it does not have
Names == {"a", "b", "c"}

NsItem(name) == [metadata |-> [name |-> name]]

\* The listings of up to MaxNs namespaces; names are unique in a cluster
NsListings ==
    {Listing([i \in 1..Len(s) |-> NsItem(s[i])]) :
        s \in {t \in SeqsUpTo(Names, MaxNs) :
                 \A i, j \in 1..Len(t) : i # j => t[i] # t[j]}}

NsAnswers ==
    BadAnswers \cup {NoItemsAnswer}
        \cup {Listing(<<NsItem("a"), [metadata |-> [uid |-> "7"]]>>)}
        \cup NsListings

\* What the client answers inside a full run
WebDc == [metadata |-> Meta("web", OldTs), status |-> [replicas |-> 2]]
DbDc == [metadata |-> Meta("db", NewTs)]
ZoneDc == [metadata |-> Meta("zone", Timestamp(10, 0, 0, 0, "+01:00")),
           status |-> [replicas |-> 1]]
WebPod == [metadata |-> Meta("web-1", OldTs), status |-> [phase |-> "Running"]]
DbPod == [metadata |-> Meta("db-1", NewTs), status |-> [phase |-> "Pending"]]

RunDcAnswers ==
    { Answer(1, "garbage", NoObj), Listing(<<WebDc, DbDc>>), Listing(<<WebDc, ZoneDc>>) }
RunPodAnswers ==
    { Answer(0, "garbage", NoObj), Listing(<<WebPod, DbPod>>) }

\* The output paths: one that can be written, one that cannot
OkPath == "/tmp/report.html"
RoPath == "/proc/report.html"
OldContent == << <<"old report">> >>

FileSystems ==
    { (OkPath :> [writable |-> TRUE, exists |-> e, content |-> c])
        @@ (RoPath :> [writable |-> FALSE, exists |-> FALSE, content |-> << >>]) :
      <<e, c>> \in {<<FALSE, << >> >>, <<TRUE, OldContent>>} }

Outputs == {NoStr, Some(""), Some(OkPath), Some(RoPath)}

\* --namespaces, character by character
CliNamespaces ==
    { NoList, Some(<< >>), Some(<<"a">>), Some(<<"b", ",", "a">>),
      Some(<<"c", ",", "z">>), Some(<<"a", ",">>), Some(<<"a", "b">>) }

\* "namespaces" of ANSIBLE_MODULE_ARGS
AnsibleNamespaces ==
    { NoList, Some(<< >>), Some(<<"a">>), Some(<<"b", "a">>), Some(<<"c", "z">>) }

\* The command lines of the client
DcQuery(ns) == "oc get dc -n " \o ns \o " -o json"
PodQuery(ns) == "oc get pods -n " \o ns \o " -o json"
NsQuery == "oc get ns -o json"

----------------------------------------------------------------------------
(* get_age on its own: one call per run *)

InitAge ==
    /\ Unused
    /\ mode = "unit"
    /\ pc = "get_age"
    /\ oc = << >>
    /\ now \in {BaseNow, BaseNow + 30}
    /\ creation_ts \in {TsOf(now - d) : d \in AgeOffsets}
    /\ age = ""
    /\ fetched = << >>

CallGetAge ==
    /\ pc = "get_age"
    /\ ~strptime_raises(creation_ts)
    /\ age' = get_age(creation_ts, now)
    /\ pc' = "returned"
    /\ UNCHANGED <<mode, argv, namespaces, oc, ns_list, idx, report_data, html,
                   files, stdout, now, creation_ts, fetched>>

NextAge == CallGetAge

SpecAge == InitAge /\ [][NextAge]_vars

----------------------------------------------------------------------------
(* The fetchers on their own: one call per run, on namespace "x" *)

InitFetch ==
    /\ Unused
    /\ mode = "unit"
    /\ now = BaseNow
    /\ creation_ts = TsOf(0)
    /\ age = ""
    /\ fetched = << >>
    /\ \/ pc = "get_deploymentconfigs" /\ \E a \in DcAnswers : oc = (DcQuery("x") :> a)
       \/ pc = "get_pods" /\ \E a \in PodAnswers : oc = (PodQuery("x") :> a)

CallGetDeploymentConfigs ==
    /\ pc = "get_deploymentconfigs"
    /\ LET r == get_deploymentconfigs(oc[DcQuery("x")], now)
       IN  /\ fetched' = r.value
           /\ pc' = IF IsException(r.exc) THEN "raised" ELSE "returned"
    /\ UNCHANGED <<mode, argv, namespaces, oc, ns_list, idx, report_data, html,
                   files, stdout, now, creation_ts, age>>

CallGetPods ==
    /\ pc = "get_pods"
    /\ LET r == get_pods(oc[PodQuery("x")], now)
       IN  /\ fetched' = r.value
           /\ pc' = IF IsException(r.exc) THEN "raised" ELSE "returned"
    /\ UNCHANGED <<mode, argv, namespaces, oc, ns_list, idx, report_data, html,
                   files, stdout, now, creation_ts, age>>

NextFetch == CallGetDeploymentConfigs \/ CallGetPods

SpecFetch == InitFetch /\ [][NextFetch]_vars

----------------------------------------------------------------------------
(* A full run of the script.  The answers of the client are chosen when   *)
(* the query is made and kept in oc.  The clock is read as one value for  *)
(* the whole run: every get_age and the build of the report see `now`.    *)

Init ==
    /\ mode \in {"cli", "ansible"}
    /\ pc = "start"
    /\ argv \in [namespaces : IF mode = "cli" THEN CliNamespaces ELSE AnsibleNamespaces,
                 output : Outputs]
    /\ namespaces = NoList
    /\ oc = << >>
    /\ ns_list = << >>
    /\ idx = 0
    /\ report_data = [order |-> << >>, map |-> << >>]
    /\ html = << >>
    /\ files \in FileSystems
    /\ stdout = << >>
    /\ now = BaseNow
    /\ creation_ts = TsOf(0)
    /\ age = ""
    /\ fetched = << >>

\* main_cli: args.namespaces.split(",") if args.namespaces else None
ParseArgsCli ==
    /\ mode = "cli" /\ pc = "start"
    /\ namespaces' = IF TruthyList(argv.namespaces)
                     THEN Some(split(argv.namespaces.value)) ELSE NoList
    /\ pc' = "get_namespaces"
    /\ UNCHANGED <<mode, argv, oc, ns_list, idx, report_data, html, files, stdout,
                   now, creation_ts, age, fetched>>

\* main_ansible: args.get("namespaces")
ParseArgsAnsible ==
    /\ mode = "ansible" /\ pc = "start"
    /\ namespaces' = argv.namespaces
    /\ pc' = "get_namespaces"
    /\ UNCHANGED <<mode, argv, oc, ns_list, idx, report_data, html, files, stdout,
                   now, creation_ts, age, fetched>>

\* Where the for loop goes with `i` namespaces done
LoopAt(list, i) == IF i > Len(list) THEN "build_report" ELSE "get_deploymentconfigs"

\* ns_list = get_namespaces(namespaces); report_data = defaultdict(dict)
GetNamespaces ==
    /\ pc = "get_namespaces"
    /\ \E ans \in NsAnswers :
         LET r == get_namespaces(namespaces, ans)
         IN  /\ oc' = oc @@ (NsQuery :> ans)
             /\ IF IsException(r.exc)
                THEN /\ pc' = "raised"
                     /\ UNCHANGED <<ns_list, idx>>
                ELSE /\ ns_list' = r.value
                     /\ idx' = 1
                     /\ pc' = LoopAt(r.value, 1)
    /\ UNCHANGED <<mode, argv, namespaces, report_data, html, files, stdout,
                   now, creation_ts, age, fetched>>

\* report_data[ns]["deploymentconfigs"] = get_deploymentconfigs(ns)
FetchDeploymentConfigs ==
    /\ pc = "get_deploymentconfigs"
    /\ \E ans \in RunDcAnswers :
         LET ns == ns_list[idx]
             r == get_deploymentconfigs(ans, now)
         IN  /\ oc' = oc @@ (DcQuery(ns) :> ans)
             /\ IF IsException(r.exc)
                THEN /\ pc' = "raised"
                     /\ UNCHANGED report_data
                ELSE /\ report_data' = SetItem(report_data, ns, "deploymentconfigs", r.value)
                     /\ pc' = "get_pods"
    /\ UNCHANGED <<mode, argv, namespaces, ns_list, idx, html, files, stdout,
                   now, creation_ts, age, fetched>>

\* report_data[ns]["pods"] = get_pods(ns), and on to the next namespace
FetchPods ==
    /\ pc = "get_pods"
    /\ \E ans \in RunPodAnswers :
         LET ns == ns_list[idx]
             r == get_pods(ans, now)
         IN  /\ oc' = oc @@ (PodQuery(ns) :> ans)
             /\ IF IsException(r.exc)
                THEN /\ pc' = "raised"
                     /\ UNCHANGED <<report_data, idx>>
                ELSE /\ report_data' = SetItem(report_data, ns, "pods", r.value)
                     /\ idx' = idx + 1
                     /\ pc' = LoopAt(ns_list, idx + 1)
    /\ UNCHANGED <<mode, argv, namespaces, ns_list, html, files, stdout,
                   now, creation_ts, age, fetched>>

\* html = build_report(report_data)
BuildReport ==
    /\ pc = "build_report"
    /\ IF build_report_raises(report_data)
       THEN pc' = "raised" /\ UNCHANGED html
       ELSE html' = build_report(report_data, now) /\ pc' = "emit"
    /\ UNCHANGED <<mode, argv, namespaces, oc, ns_list, idx, report_data, files,
                   stdout, now, creation_ts, age, fetched>>

\* main_cli: write the file and print the confirmation, or print the HTML
EmitCli ==
    /\ mode = "cli" /\ pc = "emit"
    /\ IF TruthyStr(argv.output)
       THEN IF open_raises(files, argv.output.value)
            THEN pc' = "raised" /\ UNCHANGED <<files, stdout>>
            ELSE /\ files' = write_file(files, argv.output.value, html)
                 /\ stdout' = Append(stdout, [text |-> Confirmation(argv.output.value)])
                 /\ pc' = "done"
       ELSE /\ stdout' = Append(stdout, [text |-> html])
            /\ pc' = "done"
            /\ UNCHANGED files
    /\ UNCHANGED <<mode, argv, namespaces, oc, ns_list, idx, report_data, html,
                   now, creation_ts, age, fetched>>

\* main_ansible: write the file or not, then print json.dumps(result)
EmitAnsible ==
    /\ mode = "ansible" /\ pc = "emit"
    /\ IF TruthyStr(argv.output)
       THEN IF open_raises(files, argv.output.value)
            THEN pc' = "raised" /\ UNCHANGED <<files, stdout>>
            ELSE /\ files' = write_file(files, argv.output.value, html)
                 /\ stdout' = Append(stdout,
                        [json |-> [changed |-> TRUE,
                                   msg |-> Confirmation(argv.output.value)]])
                 /\ pc' = "done"
       ELSE /\ stdout' = Append(stdout, [json |-> [changed |-> FALSE, report |-> html]])
            /\ pc' = "done"
            /\ UNCHANGED files
    /\ UNCHANGED <<mode, argv, namespaces, oc, ns_list, idx, report_data, html,
                   now, creation_ts, age, fetched>>

Next ==
    \/ ParseArgsCli
    \/ ParseArgsAnsible
    \/ GetNamespaces
    \/ FetchDeploymentConfigs
    \/ FetchPods
    \/ BuildReport
    \/ EmitCli
    \/ EmitAnsible

Spec == Init /\ [][Next]_vars

----------------------------------------------------------------------------
(* Properties of get_age (checked under SpecAge) *)

\* Seconds from the creation timestamp to the clock reading
Elapsed == now - strptime(creation_ts)

MinutesOnly == {ToString(m) \o "m" : m \in 0..59}
HoursMinutes == {ToString(h) \o "h " \o ToString(m) \o "m" : h \in 1..23, m \in 0..59}
DaysHours == {ToString(d) \o "d " \o ToString(h) \o "h" : d \in 1..31, h \in 0..23}

\* C6: get_age classifies the elapsed time at the coarsest two units:
\* "<days>d <hours>h" once a full day has elapsed, else "<hours>h <minutes>m"
\* once a full hour has elapsed, else "<minutes>m" only; so whenever less
\* than an hour has elapsed, a creation timestamp ahead of the clock
\* included, the result is a minutes-only string.
C6_AgeCoarsestTwoUnits ==
    pc = "returned" =>
        IF Elapsed >= SecondsPerDay
        THEN age = ToString(Elapsed \div SecondsPerDay) \o "d "
                      \o ToString((Elapsed % SecondsPerDay) \div SecondsPerHour) \o "h"
        ELSE IF Elapsed >= SecondsPerHour
        THEN age = ToString(Elapsed \div SecondsPerHour) \o "h "
                      \o ToString((Elapsed % SecondsPerHour) \div SecondsPerMinute) \o "m"
        ELSE age \in MinutesOnly

\* C7: at 0, 59, 60, 3599, 3600, 86399 and 90000 elapsed seconds get_age
\* returns "0m", "0m", "1m", "59m", "1h 0m", a string beginning "23h " and
\* "1d 1h"; seconds are truncated and never shown, and the hours of a days
\* string and the minutes of an hours string stay within 0..23 and 0..59.
C7_AgeBoundaries ==
    pc = "returned" =>
        /\ Elapsed = 0 => age = "0m"
        /\ Elapsed = 59 => age = "0m"
        /\ Elapsed = 60 => age = "1m"
        /\ Elapsed = 3599 => age = "59m"
        /\ Elapsed = 3600 => age = "1h 0m"
        /\ Elapsed = 86399 => age \in {"23h " \o ToString(m) \o "m" : m \in 0..59}
        /\ Elapsed = 90000 => age = "1d 1h"
        /\ age \in MinutesOnly \cup HoursMinutes \cup DaysHours
        /\ Elapsed \in 0..3599 => age = ToString(Elapsed \div 60) \o "m"
        /\ Elapsed \in 3600..86399 =>
              age = ToString(Elapsed \div 3600) \o "h "
                       \o ToString((Elapsed \div 60) % 60) \o "m"

C7_Witness == pc = "returned" /\ Elapsed = 86399 /\ age = "23h 59m"

----------------------------------------------------------------------------
(* Properties of the fetchers (checked under SpecFetch) *)

\* The call that was made, its answer, and the items of the answer
IsDcCall == HasKey(oc, DcQuery("x"))
TheAnswer == IF IsDcCall THEN oc[DcQuery("x")] ELSE oc[PodQuery("x")]
TheItems ==
    IF TheAnswer.rc = 0 /\ TheAnswer.kind = "object" /\ HasKey(TheAnswer.obj, "items")
    THEN TheAnswer.obj.items ELSE << >>

\* The client query errors, or its output is unparsable
QueryFailed == TheAnswer.rc # 0 \/ TheAnswer.kind # "object"

LacksName(item) == ~HasKey(item, "metadata") \/ ~HasKey(item.metadata, "name")
LacksTimestamp(item) ==
    ~HasKey(item, "metadata") \/ ~HasKey(item.metadata, "creationTimestamp")
LacksReplicas(item) == ~HasKey(item, "status") \/ ~HasKey(item.status, "replicas")
LacksPhase(item) == ~HasKey(item, "status") \/ ~HasKey(item.status, "phase")
MalformedTimestamp(item) ==
    ~LacksTimestamp(item) /\ strptime_raises(item.metadata.creationTimestamp)

\* An item the fetcher cannot summarise
Unusable(item) ==
    \/ LacksName(item)
    \/ LacksTimestamp(item)
    \/ MalformedTimestamp(item)
    \/ ~IsDcCall /\ LacksPhase(item)

Called == pc \in {"returned", "raised"}

\* C2 as stated: whenever the fetch fails - the query errors, the output is
\* unparsable, an item lacks metadata.name, metadata.creationTimestamp,
\* status.replicas (deployment configs) or status.phase (pods), or a
\* creation timestamp is malformed - the fetcher returns the empty sequence
\* and propagates nothing.
C2_Original ==
    Called =>
        /\ pc = "returned"
        /\ (\/ QueryFailed
            \/ \E i \in 1..Len(TheItems) :
                  \/ Unusable(TheItems[i])
                  \/ IsDcCall /\ LacksReplicas(TheItems[i]))
             => fetched = << >>

\* C2, amended: the same for every failure but a missing status.replicas,
\* which is no failure: such a deployment config is summarised with
\* replicas 0, and the result is not emptied on its account.
C2_FetchFailureIsEmpty ==
    Called =>
        /\ pc = "returned"
        /\ (QueryFailed \/ \E i \in 1..Len(TheItems) : Unusable(TheItems[i]))
             => fetched = << >>
        /\ (IsDcCall /\ ~QueryFailed /\ \A i \in 1..Len(TheItems) : ~Unusable(TheItems[i]))
             => /\ Len(fetched) = Len(TheItems)
                /\ \A i \in 1..Len(TheItems) :
                      LacksReplicas(TheItems[i]) => fetched[i].replicas = 0

C2_Witness ==
    /\ pc = "returned" /\ IsDcCall /\ fetched = << >>
    /\ Len(TheItems) = 2
    /\ ~Unusable(TheItems[1])
    /\ MalformedTimestamp(TheItems[2])

----------------------------------------------------------------------------
(* Properties of a full run (checked under Spec) *)

\* The namespace listing was asked for; it came back as a listing of names
ListingAsked == HasKey(oc, NsQuery)
ListingOk ==
    /\ ListingAsked
    /\ oc[NsQuery].rc = 0
    /\ oc[NsQuery].kind = "object"
    /\ HasKey(oc[NsQuery].obj, "items")
    /\ \A i \in 1..Len(oc[NsQuery].obj.items) : ~LacksName(oc[NsQuery].obj.items[i])

\* L: the names of the cluster, in listing order
ClusterNames ==
    [i \in 1..Len(oc[NsQuery].obj.items) |-> oc[NsQuery].obj.items[i].metadata.name]

\* There is a filter F: one was given and it is not empty
Filtered == namespaces.given /\ Len(namespaces.value) > 0
InFilter(ns) == \E i \in 1..Len(namespaces.value) : namespaces.value[i] = ns

\* The namespace headings of the document, in document order
IsHeading(fragment) == fragment[1] = "<h2>"
Headings == LET hs == SelectSeq(html, IsHeading) IN [i \in 1..Len(hs) |-> hs[i][2]]

\* C1: get_namespaces(F) returns the names of the listing L that are
\* members of F, in L's order, and all of L when F is None or empty; the
\* namespaces of the report are those of L in F, or all of L.
C1_NamespaceFilter ==
    ListingOk =>
        /\ ns_list = IF Filtered THEN SelectSeq(ClusterNames, InFilter) ELSE ClusterNames
        /\ pc \in {"emit", "done"} =>
              Range(Headings) =
                 IF Filtered
                 THEN Range(ClusterNames) \cap Range(namespaces.value)
                 ELSE Range(ClusterNames)

C1_Witness ==
    /\ pc = "done"
    /\ namespaces = Some(<<"b", "a">>)
    /\ ClusterNames = <<"a", "b">>
    /\ Headings = <<"a", "b">>

\* The fetches of namespace ns that have been made, and whether the
\* deployment-config fetch failed
DcAsked(ns) == HasKey(oc, DcQuery(ns))
PodsAsked(ns) == HasKey(oc, PodQuery(ns))
DcFetchFailed(ns) ==
    LET ans == oc[DcQuery(ns)]
    IN  \/ ans.rc # 0
        \/ ans.kind # "object"
        \/ /\ HasKey(ans.obj, "items")
           /\ \E i \in 1..Len(ans.obj.items) :
                 \/ LacksName(ans.obj.items[i])
                 \/ LacksTimestamp(ans.obj.items[i])
                 \/ MalformedTimestamp(ans.obj.items[i])

LoopOver == pc \in {"build_report", "emit", "done"}

\* C3: a failed deployment-config fetch of one namespace empties that
\* namespace's "deploymentconfigs" entry and nothing else: its "pods" entry
\* and both entries of every other namespace are what their own answers
\* give, and every later namespace is still fetched.
C3_Isolation ==
    \A k \in 1..Len(ns_list) :
        (DcAsked(ns_list[k]) /\ DcFetchFailed(ns_list[k])) =>
            /\ ~(pc = "raised" /\ idx <= Len(ns_list))
            /\ report_data.map[ns_list[k]]["deploymentconfigs"] = << >>
            /\ PodsAsked(ns_list[k]) =>
                  report_data.map[ns_list[k]]["pods"] =
                      get_pods(oc[PodQuery(ns_list[k])], now).value
            /\ \A m \in 1..Len(ns_list) :
                  /\ (m # k /\ DcAsked(ns_list[m])) =>
                        report_data.map[ns_list[m]]["deploymentconfigs"] =
                            get_deploymentconfigs(oc[DcQuery(ns_list[m])], now).value
                  /\ (m # k /\ PodsAsked(ns_list[m])) =>
                        report_data.map[ns_list[m]]["pods"] =
                            get_pods(oc[PodQuery(ns_list[m])], now).value
                  /\ m < idx => DcAsked(ns_list[m]) /\ PodsAsked(ns_list[m])
            /\ pc \in {"get_deploymentconfigs", "get_pods"} => k <= idx
            /\ LoopOver => idx = Len(ns_list) + 1

C3_Witness ==
    /\ pc = "done"
    /\ Len(ns_list) = 2
    /\ DcFetchFailed(ns_list[1])
    /\ report_data.map[ns_list[1]]["pods"] # << >>
    /\ ~DcFetchFailed(ns_list[2])
    /\ Len(report_data.map[ns_list[2]]["deploymentconfigs"]) = 2

\* C4: a namespace-listing failure is fatal in both entry modes: the error
\* leaves get_namespaces, no resource is fetched, no report is built, no
\* file is created or overwritten, and nothing is printed.
C4_ListingFailureIsFatal ==
    (ListingAsked /\ ~ListingOk) =>
        /\ pc = "raised"
        /\ DOMAIN oc = {NsQuery}
        /\ report_data.order = << >>
        /\ html = << >>
        /\ files \in FileSystems
        /\ stdout = << >>

C4_Witness ==
    /\ mode = "ansible"
    /\ pc = "raised"
    /\ ListingAsked
    /\ oc[NsQuery].rc # 0
    /\ argv.output = Some(OkPath)

\* The entry of a namespace holds both keys, each a sequence
Complete(ns) ==
    /\ ns \in DOMAIN report_data.map
    /\ DOMAIN report_data.map[ns] = {"deploymentconfigs", "pods"}
    /\ \A key \in {"deploymentconfigs", "pods"} :
          DOMAIN report_data.map[ns][key] = 1..Len(report_data.map[ns][key])

\* C5: every key of report_data is a name the lister returned; the entry
\* of a processed namespace holds "deploymentconfigs" and "pods", each a
\* sequence, empty when the fetch failed; when build_report is called
\* every listed namespace has a complete entry.
C5_ReportDataInvariant ==
    /\ DOMAIN report_data.map = Range(report_data.order)
    /\ Range(report_data.order) \subseteq Range(ns_list)
    /\ report_data.order # << >> => ListingOk /\ Range(ns_list) \subseteq Range(ClusterNames)
    /\ \A k \in 1..Len(ns_list) : k < idx => Complete(ns_list[k])
    /\ \A k \in 1..Len(ns_list) :
          (k < idx /\ DcFetchFailed(ns_list[k])) =>
              report_data.map[ns_list[k]]["deploymentconfigs"] = << >>
    /\ pc \in {"build_report", "emit", "done"} =>
          /\ report_data.order = ns_list
          /\ \A k \in 1..Len(ns_list) : Complete(ns_list[k])

C5_Witness ==
    /\ pc = "get_pods"
    /\ idx = 2
    /\ Complete(ns_list[1])
    /\ report_data.map[ns_list[1]]["deploymentconfigs"] = << >>
    /\ report_data.map[ns_list[1]]["pods"] = << >>
    /\ DOMAIN report_data.map[ns_list[2]] = {"deploymentconfigs"}

\* C8: a successful host-invoked run prints one JSON object, after all
\* fetches: {changed: false, report: H} with H the HTML document, from
\* "<!DOCTYPE html>" to "</html>", and no file written, when output is
\* unset; {changed: true, msg: ...} without "report", and H in the file,
\* when output is a writable path.
C8_AnsibleResult ==
    mode = "ansible" =>
        /\ pc # "done" => stdout = << >>
        /\ pc = "done" =>
              \A H \in {build_report(report_data, now)} :
                  /\ Len(stdout) = 1
                  /\ \A k \in 1..Len(ns_list) :
                        DcAsked(ns_list[k]) /\ PodsAsked(ns_list[k])
                  /\ ~TruthyStr(argv.output) =>
                        /\ stdout[1] = [json |-> [changed |-> FALSE, report |-> H]]
                        /\ Len(H) > 0
                        /\ H[1] = <<"<!DOCTYPE html>">>
                        /\ H[Len(H)] = <<"</html>">>
                        /\ files \in FileSystems
                  /\ TruthyStr(argv.output) =>
                        /\ DOMAIN stdout[1].json = {"changed", "msg"}
                        /\ stdout[1].json.changed = TRUE
                        /\ files[argv.output.value].exists
                        /\ files[argv.output.value].content = H

C8_Witness ==
    /\ mode = "ansible"
    /\ pc = "done"
    /\ argv.output = Some(OkPath)
    /\ Len(ns_list) = 2
    /\ files[OkPath].content = html
    /\ Len(html) > 20
    /\ stdout[1].json.changed = TRUE

\* Where the section of the k-th namespace starts in the document
RECURSIVE SectionStart(_)
SectionStart(k) ==
    IF k = 1 THEN Len(html_head(now)) + 1
    ELSE SectionStart(k - 1) + 7
            + Len(report_data.map[report_data.order[k - 1]]["deploymentconfigs"])
            + Len(report_data.map[report_data.order[k - 1]]["pods"])

\* C9: the document has one heading per namespace of ReportData, in its
\* order; under each a DeploymentConfigs table and then a Pods table, one
\* row per summary in the fetcher's order, header-only when there is none;
\* building again changes nothing but the generation timestamp.
C9_ReportLayout ==
    pc \in {"emit", "done"} =>
        /\ Headings = report_data.order
        /\ Len(html) = SectionStart(Len(report_data.order) + 1) - 1 + Len(html_tail)
        /\ \A k \in 1..Len(report_data.order) :
              \A at \in {SectionStart(k) - 1} :
                 LET ns == report_data.order[k]
                     dcs == report_data.map[ns]["deploymentconfigs"]
                     pods == report_data.map[ns]["pods"]
                 IN  /\ html[at + 1] = <<"<h2>", ns>>
                     /\ html[at + 2] = <<"<h4>", "DeploymentConfigs">>
                     /\ html[at + 3] = <<"<thead>", "Name", "Replicas", "Age">>
                     /\ \A i \in 1..Len(dcs) :
                           html[at + 3 + i] =
                              <<"<tr>", dcs[i].name, ToString(dcs[i].replicas), dcs[i].age>>
                     /\ html[at + 4 + Len(dcs)] = <<"</tbody></table>">>
                     /\ html[at + 5 + Len(dcs)] = <<"<h4>", "Pods">>
                     /\ html[at + 6 + Len(dcs)] = <<"<thead>", "Name", "Status", "Age">>
                     /\ \A j \in 1..Len(pods) :
                           html[at + 6 + Len(dcs) + j] =
                              <<"<tr>", pods[j].name, pods[j].status, pods[j].age>>
                     /\ html[at + 7 + Len(dcs) + Len(pods)] = <<"</tbody></table>">>
        /\ \A t \in {now + 1, now + 3600} :
              \A again \in {build_report(report_data, t)} :
                 /\ again # html
                 /\ [again EXCEPT ![Len(html_head(t))] = html[Len(html_head(now))]] = html

C9_Witness ==
    /\ pc = "done"
    /\ Len(report_data.order) = 2
    /\ Len(report_data.map[report_data.order[1]]["deploymentconfigs"]) = 2
    /\ Len(report_data.map[report_data.order[1]]["pods"]) = 2
    /\ report_data.map[report_data.order[2]]["deploymentconfigs"] = << >>
    /\ report_data.map[report_data.order[2]]["pods"] = << >>

====
